---------------------------- MODULE Spec2Model ----------------------------
(***************************************************************************)
(* Model of mycachelib.py: CachedAsyncSession (a read-through cache over   *)
(* Redis with an in-process fallback) and register_simple_invalidation     *)
(* (whole-namespace invalidation scheduled after insert/update/delete).    *)
(*                                                                         *)
(* One execute call is a coroutine; its await points (redis get, the       *)
(* store's execute, redis set) are the places other coroutines interleave, *)
(* so a call is modelled by one action per await segment.  A session runs  *)
(* one call at a time; different sessions run concurrently.                *)
(***************************************************************************)
EXTENDS Integers, Sequences, FiniteSets, TLC

\* ------------------------------------------------------------- bounds
MaxCalls == 2       \* calls that reach the store (misses and bypasses) in one behaviour
MaxTime  == 2       \* clock ticks in one behaviour
Ttl      == 1       \* default_ttl of every session, in clock ticks (> 0)

\* ------------------------------------------------------------ universe
Sessions == {"s1", "s2", "s3"}

\* The sessions that issue calls under Spec (a single caller, whose calls
\* interleave with the invalidation tasks); SpecConc lets two sessions of
\* one prefix call.
Callers == {"s1"}
ConcCallers == {"s1", "s2"}

\* cache_prefix of each session, as the text pieces of the prefix string:
\* "sqlcache" for s1 and s2, "sqlcache:v2" for s3.
cache_prefix(s) == IF s = "s3" THEN <<"sqlcache", ":", "v2">> ELSE <<"sqlcache">>

\* Statements.  type is the Python class, text is what str(statement) is
\* built from (a bound value of an expression object renders as a
\* placeholder such as :name_1, never as the value), binds are the values
\* bound inside the statement object.
SelAlice == [type |-> "Select", text |-> <<"SELECT", "users", "WHERE", "name", "=", ":name_1">>,
             binds |-> <<"alice">>]
SelBob   == [type |-> "Select", text |-> <<"SELECT", "users", "WHERE", "name", "=", ":name_1">>,
             binds |-> <<"bob">>]
TxtNames == [type |-> "TextClause",
             text |-> <<" ", "SELECT", "name", "FROM", "users", "WHERE", "name", "=", ":n", "AND", "tag", "=", ":k">>,
             binds |-> <<>>]
InsBob   == [type |-> "Insert", text |-> <<"INSERT", "INTO", "users", "select", ":name_1">>,
             binds |-> <<"bob">>]
Pragma   == [type |-> "TextClause", text |-> <<"PRAGMA", "optimize">>, binds |-> <<>>]
\* text(" INSERT INTO users ... VALUES ('bob', ...)"): whitespace before the verb.
TxtInsBob == [type |-> "TextClause", text |-> <<" ", "INSERT", "INTO", "users", "VALUES", "bob">>,
              binds |-> <<>>]
\* select(User.id, User.username).where(...): a projection of two columns.
SelCols  == [type |-> "Select",
             text |-> <<"SELECT", "users.id", ",", "users.username", "WHERE", "name", "=", ":name_1">>,
             binds |-> <<"alice">>]
NoStmt   == [type |-> "None", text |-> <<>>, binds |-> <<>>]

\* The params argument of execute: None, or a dict (its items in insertion
\* order, which is the order repr() prints them in).
NoneParams == [none |-> TRUE, items |-> <<>>]
Dict(items) == [none |-> FALSE, items |-> items]

\* The (statement, params) pairs the callers issue.
Inputs ==
  { <<SelAlice, NoneParams>>,
    <<SelBob, Dict(<<>>)>>,
    <<TxtNames, Dict(<< <<"n", "bob">>, <<"k", "k0">> >>)>>,
    <<InsBob, NoneParams>>,
    <<Pragma, NoneParams>> }

\* The statements and params dicts make_cache_key is probed with (KeyProbe):
\* the same pairs in two insertion orders, another value, None and {}.
KeyStatements == {SelAlice, SelBob, TxtNames}
KeyParams ==
  { NoneParams, Dict(<<>>),
    Dict(<< <<"n", "bob">>, <<"k", "k0">> >>),
    Dict(<< <<"k", "k0">>, <<"n", "bob">> >>),
    Dict(<< <<"n", "alice">>, <<"k", "k0">> >>) }

\* The statements the callers issue that are not SELECTs, with a textual
\* INSERT among them.
WriteInputs == { <<InsBob, NoneParams>>, <<TxtInsBob, NoneParams>>, <<Pragma, NoneParams>> }

\* Errors the store may raise.
StoreErrors == {"OperationalError"}

\* Rows of the users table.
Alice == [id |-> 1, username |-> "alice"]
Bob   == [id |-> 2, username |-> "bob"]
InitDb == {Alice}

\* ------------------------------------------------------ text helpers
Lower(tok) ==
  CASE tok = "SELECT" -> "select"
    [] tok = "INSERT" -> "insert"
    [] tok = "DELETE" -> "delete"
    [] tok = "UPDATE" -> "update"
    [] tok = "PRAGMA" -> "pragma"
    [] OTHER -> tok

\* str.lower(): every piece lower-cased.
lower(txt) == [i \in 1..Len(txt) |-> Lower(txt[i])]

RECURSIVE lstrip(_)
lstrip(txt) == IF txt # <<>> /\ Head(txt) = " " THEN lstrip(Tail(txt)) ELSE txt

RECURSIVE rstrip(_)
rstrip(txt) ==
  IF txt # <<>> /\ txt[Len(txt)] = " " THEN rstrip(SubSeq(txt, 1, Len(txt) - 1)) ELSE txt

\* str.strip(): leading and trailing whitespace removed.
strip(txt) == rstrip(lstrip(txt))

\* str.startswith(word), and its tuple form.
startswith(txt, word) == txt # <<>> /\ Head(txt) = word
startswithAny(txt, words) == \E w \in words : startswith(txt, w)

\* str(statement): the SQL text with placeholders; bound values are not in it.
str(statement) == statement.text

\* params = params or {}
params_or_empty(p) == IF p.none \/ p.items = <<>> THEN <<>> ELSE p.items

\* repr(params): the items of the dict in insertion order.
repr(items) == items

\* dict.get(name) of a params dict
RECURSIVE ParamValue(_, _)
ParamValue(items, name) ==
  IF items = <<>> THEN "None"
  ELSE IF Head(items)[1] = name THEN Head(items)[2] ELSE ParamValue(Tail(items), name)

\* Two params dicts are equal (Python ==) when they hold the same pairs.
SameMapping(a, b) == {a[i] : i \in 1..Len(a)} = {b[i] : i \in 1..Len(b)}

\* ---------------------------------------------------- key derivation
\* hashlib.sha256(raw).hexdigest(): taken as injective (no collisions).
sha256(raw) == <<"sha256", raw>>

make_cache_key(statement, params, prefix) ==
  LET sql_text == str(statement)
      raw == <<sql_text, "|", repr(params)>>
      digest == sha256(raw)
  IN  [prefix |-> prefix, digest |-> digest]

NoKey == [prefix |-> <<>>, digest |-> <<>>]

\* Whether the key's string prefix:digest matches the glob pattern pre:* .
IsPrefixSeq(a, b) == Len(a) <= Len(b) /\ SubSeq(b, 1, Len(a)) = a
KeyMatches(key, pre) == IsPrefixSeq(pre \o <<":">>, key.prefix \o <<":">>)

\* ----------------------------------------------------- classification
is_select_contains(statement) ==
  \/ statement.type = "Select"
  \/ LET txt == lower(strip(str(statement)))
     IN  \E i \in 1..Len(txt) : txt[i] = "select"

\* execute's "only cache SELECT statements" test.
is_select(statement) ==
  \/ statement.type = "Select"
  \/ startswith(lower(strip(str(statement))), "select")

\* The listener's test of the executed clause.
is_write(clauseelement) ==
  startswithAny(lower(strip(str(clauseelement))), {"insert", "update", "delete"})

\* ------------------------------------------------------------ the store
RowsOf(S) == (IF Alice \in S THEN <<Alice>> ELSE <<>>) \o (IF Bob \in S THEN <<Bob>> ELSE <<>>)

\* A mapped object of class User holding a row.
UserObj(row) == [mapper |-> "User", attrs |-> row]

Named(S, name) == {r \in S : r.username = name}

\* The Result of a statement the store executed on table contents d: the
\* selected columns in order, the rows (column name -> value), whether the
\* column of an "orm" result holds mapped objects, and the introspection
\* calls that raise on this result (none, as the store hands it over).
StoreRows(statement, params, d) ==
  CASE statement = SelCols ->
         LET rows == RowsOf(Named(d, statement.binds[1]))
         IN  [shape |-> "columns", cols |-> <<"id", "username">>,
              rows |-> [i \in 1..Len(rows) |-> [id |-> rows[i].id, username |-> rows[i].username]],
              fails |-> {}]
    [] statement # SelCols /\ statement.type = "Select" ->
         LET rows == RowsOf(Named(d, statement.binds[1]))
         IN  [shape |-> "orm", cols |-> <<"User">>,
              rows |-> [i \in 1..Len(rows) |-> [User |-> UserObj(rows[i])]], fails |-> {}]
    [] statement = TxtNames ->
         LET rows == RowsOf(Named(d, ParamValue(params, "n")))
         IN  [shape |-> "columns", cols |-> <<"name">>,
              rows |-> [i \in 1..Len(rows) |-> [name |-> rows[i].username]], fails |-> {}]
    [] OTHER -> [shape |-> "cursor", cols |-> <<>>, rows |-> <<>>, fails |-> {}]

\* The introspection calls of the materialization that raise on a result:
\* none; the inspection of a mapped object (sa_inspect, getattr); every call
\* on the result itself (scalars() and mappings(), a closed result).
Faults == {{}, {"inspect"}, {"scalars", "mappings"}}

\* The table contents after the store executed a statement.
StoreApply(statement, params, d) ==
  CASE statement \in {InsBob, TxtInsBob} -> d \cup {Bob}
    [] OTHER -> d

\* await super().execute(...): no handler around it, the store's error leaves
\* execute as it is.
StoreOutcomeSwallowed(ok, err) == [raised |-> FALSE, error |-> "none"]

StoreOutcome(ok, err) == [raised |-> ~ok, error |-> IF ok THEN "none" ELSE err]

\* ------------------------------------------------------ materialization
\* A bare Python value in a payload list (written as a record, so that a
\* list of scalars and a list of dicts are values of one kind).
Scalar(v) == [scalar |-> v]

\* result.scalars().all(): the first column of every row.
scalars(result) ==
  [i \in 1..Len(result.rows) |->
     LET first == result.rows[i][result.cols[1]]
     IN  IF result.shape = "orm" THEN first ELSE Scalar(first)]

\* hasattr(first, "__mapper__")
has_mapper(first) == "mapper" \in DOMAIN first

\* [dict(r) for r in result.mappings().all()]
mappings(result) == result.rows

\* {attr.key: getattr(obj, attr.key) for attr in sa_inspect(obj).mapper.column_attrs}
column_dict(obj) == obj.attrs

\* The portable payload of a result, as the try/except ladder of execute
\* computes it.  A result that gave scalars is consumed by .all(): the
\* mappings branch is reached with no scalars only, and then has no rows.
materialize(result) ==
  IF "scalars" \notin result.fails
  THEN LET scalars_list == scalars(result)
       IN  IF scalars_list # <<>>
           THEN IF has_mapper(scalars_list[1])
                THEN IF "inspect" \notin result.fails
                     THEN [i \in 1..Len(scalars_list) |-> column_dict(scalars_list[i])]
                     ELSE <<>>
                ELSE scalars_list
           ELSE IF "mappings" \notin result.fails THEN mappings(result) ELSE <<>>
  ELSE IF "mappings" \notin result.fails THEN mappings(result) ELSE <<>>

\* The introspection calls that raise in the materialization of a result
\* (those the ladder reaches, of the calls that raise on the result).
raised_in(result) ==
  IF "scalars" \notin result.fails
  THEN LET scalars_list == scalars(result)
       IN  IF scalars_list # <<>>
           THEN IF has_mapper(scalars_list[1]) THEN {"inspect"} \cap result.fails ELSE {}
           ELSE {"mappings"} \cap result.fails
  ELSE {"scalars"} \cup ({"mappings"} \cap result.fails)

\* pickle.dumps / pickle.loads: a frame around the value.
pickle_dumps(payload) == <<"PROTO", payload, "STOP">>
pickle_loads_raw(bytes) == bytes

pickle_loads(bytes) == bytes[2]

\* --------------------------------------------------------------- state
VARIABLES
  db,               \* the users table of the store
  now,              \* the clock (time.time())
  remote,           \* Redis: key -> [bytes, expiry, by]
  local,            \* per session, _local_cache: key -> [payload, expiry, by, pristine, served]
  last_from_cache,  \* per session, _last_from_cache: "None", "True" or "False"
  pc,               \* per session, where its execute call is suspended
  call,             \* per session, the call in flight, or the last one made
  tasks,            \* the _clear_cache tasks on the event loop, oldest first
  ncalls            \* calls that reached the store in this behaviour

vars == <<db, now, remote, local, last_from_cache, pc, call, tasks, ncalls>>

NoValue == [kind |-> "none", data |-> <<>>]
Payload(p) == [kind |-> "payload", data |-> p]
Native(r) == [kind |-> "native", data |-> r]

\* The record of one execute call.  stmt, params, key and value are the
\* call's own data; the other fields record what the call did and found.
NewCall(statement, params) ==
  [op |-> "execute",           \* execute or clear_cache
   stmt |-> statement, params |-> params, key |-> NoKey,
   outcome |-> "pending",      \* pending, returned or raised
   error |-> "none",           \* the error that left execute
   value |-> NoValue,          \* what execute returned (or is about to cache)
   origin |-> "none",          \* remote, local or store: what served the call
   by |-> <<>>,                \* the (statement, params) that stored the entry served
   storeErr |-> "none",        \* the error the store raised
   storeExecs |-> 0,           \* times the store executed the statement
   fails |-> {},               \* introspection calls that raised in the materialization
   ops |-> {},                 \* cache operations made
   failed |-> {},              \* remote operations that raised
   cold |-> FALSE,             \* no entry for the key in either tier at lookup
   sawExpired |-> FALSE,       \* the lookup found a local entry with expiry <= now
   rep |-> FALSE,              \* repeats the call that stored the key, nothing changed since
   sawInval |-> FALSE,         \* follows a write whose invalidation is done, of a query served from cache before
   pre |-> FALSE,              \* the payload was computed by the store before a write that has executed since
   keys |-> {},                \* the keys a clear_cache call enumerated
   task |-> "none"]            \* of a write: unscheduled, pending, done or failed

NoCall == NewCall(NoStmt, <<>>)

Init ==
  /\ db = InitDb
  /\ now = 0
  /\ remote = <<>>
  /\ local = [s \in Sessions |-> <<>>]
  /\ last_from_cache = [s \in Sessions |-> "None"]
  /\ pc = [s \in Sessions |-> "idle"]
  /\ call = [s \in Sessions |-> NoCall]
  /\ tasks = <<>>
  /\ ncalls = 0

\* Function f with key k set to v; f without the keys in K.
Put(f, k, v) == [x \in DOMAIN f \cup {k} |-> IF x = k THEN v ELSE f[x]]
Drop(f, K) == [x \in DOMAIN f \ K |-> f[x]]
Remove(q, i) == [j \in 1..(Len(q) - 1) |-> IF j < i THEN q[j] ELSE q[j + 1]]

\* Bookkeeping on the local entries: the store or the Redis entry of key k
\* (of every key, for AllKeys) changed under them.
Disturbed(loc, K) ==
  [s \in Sessions |-> [k \in DOMAIN loc[s] |->
     IF k \in K THEN [loc[s][k] EXCEPT !.pristine = FALSE] ELSE loc[s][k]]]
AllKeys == UNION {DOMAIN local[s] : s \in Sessions}

\* Bookkeeping on the entries of a tier: a write executed after the store
\* computed their payloads.
Stale(f, K) == [k \in DOMAIN f |-> IF k \in K THEN [f[k] EXCEPT !.pre = TRUE] ELSE f[k]]

\* ---------------------------------------------------------------- Redis
NotFound == [found |-> FALSE, bytes |-> <<>>, by |-> <<>>, pre |-> FALSE]

\* GET key: the bytes of an entry that has not expired, else None.
RedisGet(key) ==
  IF key \in DOMAIN remote /\ remote[key].expiry > now
  THEN [found |-> TRUE, bytes |-> remote[key].bytes, by |-> remote[key].by, pre |-> remote[key].pre]
  ELSE NotFound

\* SET key bytes, the time to live left out: the entry never expires.
RedisSetNoExpiry(key, bytes, ttl, by) ==
  Put(remote, key, [bytes |-> bytes, expiry |-> now + ttl + MaxTime + 1, by |-> by, pre |-> FALSE])

\* SET key bytes EX ttl
RedisSet(key, bytes, ttl, by) ==
  Put(remote, key, [bytes |-> bytes, expiry |-> now + ttl, by |-> by, pre |-> FALSE])

\* KEYS pre:*
RedisKeys(pre) == {k \in DOMAIN remote : remote[k].expiry > now /\ KeyMatches(k, pre)}

\* ------------------------------------------------- execute, its pieces
SafeGetRaising(key, rok) ==
  IF rok THEN [raised |-> FALSE, cached |-> RedisGet(key)] ELSE [raised |-> TRUE, cached |-> NotFound]

\* try: cached = await self._redis.get(cache_key) / except Exception: cached = None
SafeGet(key, rok) ==
  IF rok THEN [raised |-> FALSE, cached |-> RedisGet(key)] ELSE [raised |-> FALSE, cached |-> NotFound]

\* if cached: a bytes value is true when it is not None and not empty.
Truthy(cached) == cached.found /\ Len(cached.bytes) > 0

LocalFreshInclusive(entry) == entry.expiry >= now
LocalFreshAlways(entry) == TRUE

\* if expiry > time.time()
LocalFresh(entry) == entry.expiry > now

SafeSetRaising(key, payload, rok, by) ==
  IF rok THEN [raised |-> FALSE, remote |-> RedisSet(key, pickle_dumps(payload), Ttl, by)]
  ELSE [raised |-> TRUE, remote |-> remote]

\* with contextlib.suppress(Exception): await self._redis.set(...)
SafeSet(key, payload, rok, by) ==
  IF rok THEN [raised |-> FALSE, remote |-> RedisSet(key, pickle_dumps(payload), Ttl, by)]
  ELSE [raised |-> FALSE, remote |-> remote]

\* The prefix register_simple_invalidation was called with.
ListenerPrefix == <<"sqlcache">>

NewTask(owner, pre) == [pc |-> "keys", prefix |-> pre, keys |-> {}, owner |-> owner]

after_execute_raising(q, owner, clauseelement, sched, pre) ==
  IF is_write(clauseelement)
  THEN IF sched THEN [raised |-> FALSE, scheduled |-> TRUE, tasks |-> Append(q, NewTask(owner, pre))]
       ELSE [raised |-> TRUE, scheduled |-> FALSE, tasks |-> q]
  ELSE [raised |-> FALSE, scheduled |-> FALSE, tasks |-> q]

after_execute_always(q, owner, clauseelement, sched, pre) ==
  IF sched
  THEN [raised |-> FALSE, scheduled |-> TRUE, tasks |-> Append(q, NewTask(owner, pre))]
  ELSE [raised |-> FALSE, scheduled |-> FALSE, tasks |-> q]

\* The listener: after a statement executed, schedule _clear_cache when the
\* statement's text starts with insert, update or delete.  sched is whether
\* get_running_loop and create_task succeed; any error is suppressed.
after_execute(q, owner, clauseelement, sched, pre) ==
  IF is_write(clauseelement) /\ sched
  THEN [raised |-> FALSE, scheduled |-> TRUE, tasks |-> Append(q, NewTask(owner, pre))]
  ELSE [raised |-> FALSE, scheduled |-> FALSE, tasks |-> q]

\* The tasks with those scheduled by a call of s that has ended no longer
\* reporting to it (s begins another call).
Detach(q, s) == [i \in 1..Len(q) |-> IF q[i].owner = s THEN [q[i] EXCEPT !.owner = "-"] ELSE q[i]]

\* -------------------------------------------------------------- actions
\* execute of a statement that is not a SELECT: straight to the store.  The
\* listener runs inside the store's execute, after the statement succeeded.
\* I is the set of (statement, params) pairs the call is made with.
ExecuteBypassOf(s, I) ==
  /\ pc[s] = "idle"
  /\ ncalls < MaxCalls
  /\ \E in \in I, ok \in BOOLEAN, err \in StoreErrors, sched \in BOOLEAN :
       LET statement == in[1]
           params == params_or_empty(in[2])
           c0 == [NewCall(statement, params) EXCEPT
                    !.storeExecs = 1, !.storeErr = IF ok THEN "none" ELSE err]
           so == StoreOutcome(ok, err)
           li == after_execute(Detach(tasks, s), s, statement, sched, ListenerPrefix)
       IN  /\ ~is_select(statement)
           /\ IF so.raised
              THEN /\ call' = [call EXCEPT ![s] = [c0 EXCEPT !.outcome = "raised", !.error = so.error]]
                   /\ tasks' = Detach(tasks, s)
                   /\ UNCHANGED <<db, local, remote>>
              ELSE /\ db' = IF ok THEN StoreApply(statement, params, db) ELSE db
                   /\ tasks' = li.tasks
                   /\ local' = IF is_write(statement)
                               THEN [t \in Sessions |-> Stale(Disturbed(local, AllKeys)[t], AllKeys)]
                               ELSE local
                   /\ remote' = IF is_write(statement) THEN Stale(remote, DOMAIN remote) ELSE remote
                   /\ call' = [t \in Sessions |->
                        IF t = s
                        THEN IF li.raised
                             THEN [c0 EXCEPT !.outcome = "raised", !.error = "RuntimeError"]
                             ELSE [c0 EXCEPT !.outcome = "returned", !.origin = "store",
                                     !.task = IF li.scheduled THEN "pending"
                                              ELSE IF is_write(statement) THEN "unscheduled" ELSE "none",
                                     !.value = Native(StoreRows(statement, params, db))]
                        ELSE IF is_write(statement) /\ pc[t] = "set"
                             THEN [call[t] EXCEPT !.pre = TRUE]
                             ELSE call[t]]
  /\ ncalls' = ncalls + 1
  /\ UNCHANGED <<now, last_from_cache, pc>>

ExecuteBypass(s) == ExecuteBypassOf(s, Inputs)
ExecuteWrite(s) == ExecuteBypassOf(s, WriteInputs)

\* execute of a SELECT up to the store: the key, the Redis get, the local
\* fallback.  A hit returns here; a miss goes on to the store.
ExecuteLookup(s) ==
  /\ pc[s] = "idle"
  /\ \E in \in Inputs, rok \in BOOLEAN :
       LET statement == in[1]
           params == params_or_empty(in[2])
           cache_key == make_cache_key(statement, params, cache_prefix(s))
           g == SafeGet(cache_key, rok)
           cached == g.cached
           has == cache_key \in DOMAIN local[s]
           entry == local[s][cache_key]
           same == has /\ entry.by = <<statement, params>>
           c0 == [NewCall(statement, params) EXCEPT
                    !.key = cache_key, !.ops = {"rget"},
                    !.failed = IF rok THEN {} ELSE {"rget"},
                    !.cold = ~RedisGet(cache_key).found /\ ~has,
                    !.rep = same /\ entry.pristine /\ entry.expiry > now,
                    !.sawInval = /\ same /\ entry.served /\ entry.expiry > now
                                 /\ call[s].task = "done"]
           served == IF same THEN [local EXCEPT ![s][cache_key].served = TRUE] ELSE local
       IN  /\ is_select(statement)
           /\ IF g.raised
              THEN /\ call' = [call EXCEPT ![s] = [c0 EXCEPT !.outcome = "raised", !.error = "RedisError"]]
                   /\ UNCHANGED <<local, last_from_cache, pc, ncalls>>
              ELSE IF Truthy(cached)
              THEN /\ last_from_cache' = [last_from_cache EXCEPT ![s] = "True"]
                   /\ call' = [call EXCEPT ![s] = [c0 EXCEPT !.outcome = "returned", !.origin = "remote",
                                 !.by = cached.by, !.pre = cached.pre,
                                 !.value = Payload(pickle_loads(cached.bytes))]]
                   /\ local' = served
                   /\ UNCHANGED <<pc, ncalls>>
              ELSE IF has /\ LocalFresh(entry)
              THEN /\ last_from_cache' = [last_from_cache EXCEPT ![s] = "True"]
                   /\ call' = [call EXCEPT ![s] = [c0 EXCEPT !.outcome = "returned", !.origin = "local",
                                 !.ops = @ \cup {"lread"}, !.by = entry.by, !.pre = entry.pre,
                                 !.sawExpired = entry.expiry <= now,
                                 !.value = Payload(entry.payload)]]
                   /\ local' = served
                   /\ UNCHANGED <<pc, ncalls>>
              ELSE /\ ncalls < MaxCalls
                   /\ local' = [local EXCEPT ![s] = Drop(@, {cache_key})]
                   /\ call' = [call EXCEPT ![s] = [c0 EXCEPT !.sawExpired = has,
                                 !.ops = @ \cup (IF has THEN {"lread", "levict"} ELSE {"lread"})]]
                   /\ pc' = [pc EXCEPT ![s] = "db"]
                   /\ ncalls' = ncalls + 1
                   /\ UNCHANGED last_from_cache
  /\ tasks' = Detach(tasks, s)
  /\ UNCHANGED <<db, now, remote>>

\* The store executes the SELECT of a miss; the call marks itself DB-served
\* and materializes the payload.  (The listener sees the statement too, and
\* schedules nothing: its text starts with select.)  F is the set of the
\* introspection failures the result may come with.
ExecuteStoreWith(s, F) ==
  /\ pc[s] = "db"
  /\ \E ok \in BOOLEAN, err \in StoreErrors, fails \in F :
       LET c == [call[s] EXCEPT !.storeExecs = @ + 1, !.storeErr = IF ok THEN "none" ELSE err]
           so == StoreOutcome(ok, err)
           result == [StoreRows(c.stmt, c.params, db) EXCEPT !.fails = fails]
       IN  IF so.raised
           THEN /\ call' = [call EXCEPT ![s] = [c EXCEPT !.outcome = "raised", !.error = so.error]]
                /\ pc' = [pc EXCEPT ![s] = "idle"]
                /\ UNCHANGED last_from_cache
           ELSE /\ last_from_cache' = [last_from_cache EXCEPT ![s] = "False"]
                /\ call' = [call EXCEPT ![s] = [c EXCEPT !.fails = raised_in(result),
                                                          !.value = Payload(materialize(result))]]
                /\ pc' = [pc EXCEPT ![s] = "set"]
  /\ UNCHANGED <<db, now, remote, local, tasks, ncalls>>

\* The store step with a result whose introspection succeeds, and with a
\* result on which introspection calls may raise.
ExecuteStore(s) == ExecuteStoreWith(s, {{}})
ExecuteStoreDegraded(s) == ExecuteStoreWith(s, Faults)

\* The Redis set of a miss, the local entry, the return.
ExecuteSet(s) ==
  /\ pc[s] = "set"
  /\ \E rok \in BOOLEAN :
       LET c == call[s]
           payload == c.value.data
           by == <<c.stmt, c.params>>
           ss == SafeSet(c.key, payload, rok, by)
           loc == IF rok THEN Disturbed(local, {c.key}) ELSE local
       IN  /\ remote' = IF rok /\ c.pre THEN Stale(ss.remote, {c.key}) ELSE ss.remote
           /\ IF ss.raised
              THEN /\ call' = [call EXCEPT ![s] = [c EXCEPT !.outcome = "raised", !.error = "RedisError",
                                 !.ops = @ \cup {"rset"}, !.failed = @ \cup {"rset"}]]
                   /\ local' = loc
              ELSE /\ local' = [loc EXCEPT ![s] =
                                  Put(@, c.key, [payload |-> payload, expiry |-> now + Ttl, by |-> by,
                                                 pristine |-> c.cold /\ rok /\ c.failed = {},
                                                 pre |-> c.pre,
                                                 served |-> FALSE])]
                   /\ call' = [call EXCEPT ![s] = [c EXCEPT !.outcome = "returned", !.origin = "store",
                                 !.ops = @ \cup {"rset", "lwrite"},
                                 !.failed = IF rok THEN @ ELSE @ \cup {"rset"}]]
  /\ pc' = [pc EXCEPT ![s] = "idle"]
  /\ UNCHANGED <<db, now, last_from_cache, tasks, ncalls>>

\* The end of task i: it leaves the loop; the write that scheduled it, when
\* it is still the last call of its session, has its task's end recorded.
Ended(i, how) ==
  /\ tasks' = Remove(tasks, i)
  /\ call' = [s \in Sessions |->
                IF s = tasks[i].owner THEN [call[s] EXCEPT !.task = how] ELSE call[s]]

\* _clear_cache, first await: keys = await redis_client.keys(prefix:*)
ClearKeys(i) ==
  /\ tasks[i].pc = "keys"
  /\ \E rok \in BOOLEAN :
       LET keys == RedisKeys(tasks[i].prefix)
       IN  IF ~rok THEN Ended(i, "failed")
           ELSE IF keys = {} THEN Ended(i, "done")
           ELSE /\ tasks' = [tasks EXCEPT ![i] = [@ EXCEPT !.pc = "delete", !.keys = keys]]
                /\ UNCHANGED call
  /\ UNCHANGED <<db, now, remote, local, last_from_cache, pc, ncalls>>

\* _clear_cache, second await: await redis_client.delete(*keys)
ClearDelete(i) ==
  /\ tasks[i].pc = "delete"
  /\ \E rok \in BOOLEAN :
       IF rok
       THEN /\ remote' = Drop(remote, tasks[i].keys)
            /\ local' = Disturbed(local, AllKeys)
            /\ Ended(i, "done")
       ELSE /\ Ended(i, "failed")
            /\ UNCHANGED <<remote, local>>
  /\ UNCHANGED <<db, now, last_from_cache, pc, ncalls>>

\* The record of a clear_cache call of a session.
ClearCall == [NoCall EXCEPT !.op = "clear_cache", !.ops = {"rkeys"}]

\* clear_cache of session s, first await: keys = await self._redis.keys(prefix:*).
\* Nothing handles an error of the call: it leaves clear_cache.  No keys:
\* the call returns.
ClearCacheKeys(s) ==
  /\ pc[s] = "idle"
  /\ \E rok \in BOOLEAN :
       LET keys == RedisKeys(cache_prefix(s))
       IN  IF ~rok
           THEN /\ call' = [call EXCEPT ![s] = [ClearCall EXCEPT !.outcome = "raised",
                                                   !.error = "RedisError", !.failed = {"rkeys"}]]
                /\ UNCHANGED pc
           ELSE IF keys = {}
           THEN /\ call' = [call EXCEPT ![s] = [ClearCall EXCEPT !.outcome = "returned"]]
                /\ UNCHANGED pc
           ELSE /\ call' = [call EXCEPT ![s] = [ClearCall EXCEPT !.keys = keys]]
                /\ pc' = [pc EXCEPT ![s] = "del"]
  /\ tasks' = Detach(tasks, s)
  /\ UNCHANGED <<db, now, remote, local, last_from_cache, ncalls>>

\* clear_cache of session s, second await: await self._redis.delete(*keys)
ClearCacheDelete(s) ==
  /\ pc[s] = "del"
  /\ \E rok \in BOOLEAN :
       IF rok
       THEN /\ remote' = Drop(remote, call[s].keys)
            /\ local' = Disturbed(local, AllKeys)
            /\ call' = [call EXCEPT ![s] = [@ EXCEPT !.outcome = "returned", !.ops = @ \cup {"rdelete"}]]
       ELSE /\ call' = [call EXCEPT ![s] = [@ EXCEPT !.outcome = "raised", !.error = "RedisError",
                                             !.ops = @ \cup {"rdelete"}, !.failed = {"rdelete"}]]
            /\ UNCHANGED <<remote, local>>
  /\ pc' = [pc EXCEPT ![s] = "idle"]
  /\ UNCHANGED <<db, now, last_from_cache, tasks, ncalls>>

\* Time passes; Redis drops the entries whose time to live is over.
Tick ==
  /\ now < MaxTime
  /\ now' = now + 1
  /\ remote' = Drop(remote, {k \in DOMAIN remote : remote[k].expiry <= now + 1})
  /\ UNCHANGED <<db, local, last_from_cache, pc, call, tasks, ncalls>>

Next ==
  \/ \E s \in Callers : ExecuteBypass(s)
  \/ \E s \in Callers : ExecuteLookup(s)
  \/ \E s \in Callers : ExecuteStore(s)
  \/ \E s \in Callers : ExecuteSet(s)
  \/ \E i \in 1..Len(tasks) : ClearKeys(i)
  \/ \E i \in 1..Len(tasks) : ClearDelete(i)
  \/ Tick

Spec == Init /\ [][Next]_vars

NextConc ==
  \/ \E s \in ConcCallers : ExecuteBypass(s)
  \/ \E s \in ConcCallers : ExecuteLookup(s)
  \/ \E s \in ConcCallers : ExecuteStore(s)
  \/ \E s \in ConcCallers : ExecuteSet(s)
  \/ \E i \in 1..Len(tasks) : ClearKeys(i)
  \/ \E i \in 1..Len(tasks) : ClearDelete(i)
  \/ Tick

SpecConc == Init /\ [][NextConc]_vars

\* The caller's execute calls and the listener's tasks, with another
\* session of the same prefix calling clear_cache.
Clearers == {"s2"}

NextClear ==
  \/ \E s \in Callers : ExecuteBypass(s)
  \/ \E s \in Callers : ExecuteLookup(s)
  \/ \E s \in Callers : ExecuteStore(s)
  \/ \E s \in Callers : ExecuteSet(s)
  \/ \E s \in Clearers : ClearCacheKeys(s)
  \/ \E s \in Clearers : ClearCacheDelete(s)
  \/ \E i \in 1..Len(tasks) : ClearKeys(i)
  \/ \E i \in 1..Len(tasks) : ClearDelete(i)
  \/ Tick

SpecClear == Init /\ [][NextClear]_vars

\* A single session whose prefix is "sqlcache:v2", on an engine whose
\* listener was registered with the prefix "sqlcache".
NsCallers == {"s3"}

NextNs ==
  \/ \E s \in NsCallers : ExecuteBypass(s)
  \/ \E s \in NsCallers : ExecuteLookup(s)
  \/ \E s \in NsCallers : ExecuteStore(s)
  \/ \E s \in NsCallers : ExecuteSet(s)
  \/ \E i \in 1..Len(tasks) : ClearKeys(i)
  \/ \E i \in 1..Len(tasks) : ClearDelete(i)
  \/ Tick

SpecNs == Init /\ [][NextNs]_vars

\* The caller's READs with the statements of WriteInputs as its other calls.
NextTrig ==
  \/ \E s \in Callers : ExecuteWrite(s)
  \/ \E s \in Callers : ExecuteLookup(s)
  \/ \E s \in Callers : ExecuteStore(s)
  \/ \E s \in Callers : ExecuteSet(s)
  \/ \E i \in 1..Len(tasks) : ClearKeys(i)
  \/ \E i \in 1..Len(tasks) : ClearDelete(i)
  \/ Tick

SpecTrig == Init /\ [][NextTrig]_vars

\* The specification of make_cache_key alone: each session holds a
\* (statement, params) pair drawn from the probe sets, and derives its key
\* as execute does.
InitKeys ==
  /\ db = InitDb
  /\ now = 0
  /\ remote = <<>>
  /\ local = [s \in Sessions |-> <<>>]
  /\ last_from_cache = [s \in Sessions |-> "None"]
  /\ pc = [s \in Sessions |-> "idle"]
  /\ call \in [Sessions -> {NewCall(st, params_or_empty(p)) : st \in KeyStatements, p \in KeyParams}]
  /\ tasks = <<>>
  /\ ncalls = 0

KeyProbe(s) ==
  /\ call[s].key = NoKey
  /\ call' = [call EXCEPT ![s].key = make_cache_key(call[s].stmt, call[s].params, cache_prefix(s))]
  /\ UNCHANGED <<db, now, remote, local, last_from_cache, pc, tasks, ncalls>>

NextKeys == \E s \in Sessions : KeyProbe(s)

SpecKeys == InitKeys /\ [][NextKeys]_vars

\* The specification of the miss path from the store on: a caller has
\* looked a READ up and missed in both tiers; the table holds any of the
\* rows.  The statements cover the three result shapes.
MatInputs ==
  { <<SelAlice, NoneParams>>,
    <<SelBob, Dict(<<>>)>>,
    <<TxtNames, Dict(<< <<"n", "bob">>, <<"k", "k0">> >>)>>,
    <<SelCols, NoneParams>> }

Missed(s, statement, params) ==
  [NewCall(statement, params) EXCEPT
     !.key = make_cache_key(statement, params, cache_prefix(s)),
     !.ops = {"rget", "lread"}, !.cold = TRUE]

InitMat ==
  /\ db \in SUBSET {Alice, Bob}
  /\ now = 0
  /\ remote = <<>>
  /\ local = [s \in Sessions |-> <<>>]
  /\ last_from_cache = [s \in Sessions |-> "None"]
  /\ pc = [s \in Sessions |-> IF s \in Callers THEN "db" ELSE "idle"]
  /\ \E in \in MatInputs :
       call = [s \in Sessions |->
                 IF s \in Callers THEN Missed(s, in[1], params_or_empty(in[2])) ELSE NoCall]
  /\ tasks = <<>>
  /\ ncalls = 1

NextMat ==
  \/ \E s \in Callers : ExecuteStoreDegraded(s)
  \/ \E s \in Callers : ExecuteSet(s)
  \/ Tick

SpecMat == InitMat /\ [][NextMat]_vars

\* The specification of the time after a write.  Either session s1 had
\* missed SelBob and stored its payload in both tiers, then executed InsBob,
\* whose invalidation failed or was never run (the Redis entry is there);
\* or s2 executed InsBob and its invalidation while a read of s1, which the
\* store had served before the write, was in flight: s1 is about to set its
\* payload.  From here on no write is executed: s1 reads, time passes.
StaleScenarios == {"not invalidated", "raced"}
StaleKey == make_cache_key(SelBob, <<>>, cache_prefix("s1"))
StalePayload == materialize(StoreRows(SelBob, <<>>, InitDb))

\* The record of the InsBob call that has returned.
Wrote(task) ==
  [NewCall(InsBob, <<>>) EXCEPT
     !.storeExecs = 1, !.outcome = "returned", !.origin = "store",
     !.value = Native(StoreRows(InsBob, <<>>, InitDb)), !.task = task]

InitStale ==
  /\ db = StoreApply(InsBob, <<>>, InitDb)
  /\ now = 0
  /\ tasks = <<>>
  /\ \E sc \in StaleScenarios :
       IF sc = "not invalidated"
       THEN /\ remote = Put(<<>>, StaleKey, [bytes |-> pickle_dumps(StalePayload), expiry |-> Ttl,
                                             by |-> <<SelBob, <<>>>>, pre |-> TRUE])
            /\ local = [s \in Sessions |->
                          IF s = "s1"
                          THEN Put(<<>>, StaleKey, [payload |-> StalePayload, expiry |-> Ttl,
                                                    by |-> <<SelBob, <<>>>>, pristine |-> FALSE,
                                                    pre |-> TRUE, served |-> FALSE])
                          ELSE <<>>]
            /\ pc = [s \in Sessions |-> "idle"]
            /\ call = [s \in Sessions |-> IF s = "s1" THEN Wrote("failed") ELSE NoCall]
            /\ last_from_cache = [s \in Sessions |-> IF s = "s1" THEN "False" ELSE "None"]
            /\ ncalls = 0
       ELSE /\ remote = <<>>
            /\ local = [s \in Sessions |-> <<>>]
            /\ pc = [s \in Sessions |-> IF s = "s1" THEN "set" ELSE "idle"]
            /\ call = [s \in Sessions |->
                         IF s = "s1"
                         THEN [Missed(s, SelBob, <<>>) EXCEPT
                                 !.storeExecs = 1, !.value = Payload(StalePayload), !.pre = TRUE]
                         ELSE IF s = "s2" THEN Wrote("done") ELSE NoCall]
            /\ last_from_cache = [s \in Sessions |-> IF s = "s1" THEN "False" ELSE "None"]
            /\ ncalls = 1

NextReads ==
  \/ \E s \in Callers : ExecuteLookup(s)
  \/ \E s \in Callers : ExecuteStore(s)
  \/ \E s \in Callers : ExecuteSet(s)
  \/ Tick

\* Time passes (the clock is not stopped).
SpecStale == InitStale /\ [][NextReads]_vars /\ WF_vars(Tick)

\* The specification of the lookup: the tiers of s1 as calls of two
\* sessions leave them for the key that SelAlice and SelBob share.  s1 had
\* missed SelBob with the Redis set failing (its local entry holds that
\* payload, not yet expired or expired), and s2 has since stored the
\* payload of SelAlice in Redis, or has not.
TierScenarios ==
  { [inRedis |-> TRUE,  localExpiry |-> Ttl],
    [inRedis |-> FALSE, localExpiry |-> Ttl],
    [inRedis |-> FALSE, localExpiry |-> 0] }
RemotePayload == materialize(StoreRows(SelAlice, <<>>, InitDb))

InitTiers ==
  /\ db = InitDb
  /\ now = 0
  /\ tasks = <<>>
  /\ ncalls = 0
  /\ pc = [s \in Sessions |-> "idle"]
  /\ call = [s \in Sessions |-> NoCall]
  /\ last_from_cache = [s \in Sessions |-> IF s \in ConcCallers THEN "False" ELSE "None"]
  /\ \E sc \in TierScenarios :
       /\ remote = IF sc.inRedis
                   THEN Put(<<>>, StaleKey, [bytes |-> pickle_dumps(RemotePayload), expiry |-> Ttl,
                                             by |-> <<SelAlice, <<>>>>, pre |-> FALSE])
                   ELSE <<>>
       /\ local = [s \in Sessions |->
                     IF s = "s1"
                     THEN Put(<<>>, StaleKey, [payload |-> StalePayload, expiry |-> sc.localExpiry,
                                               by |-> <<SelBob, <<>>>>, pristine |-> FALSE,
                                               pre |-> FALSE, served |-> FALSE])
                     ELSE <<>>]

SpecTiers == InitTiers /\ [][NextReads]_vars

\* ------------------------------------------------------------ properties
\* The local tier of a session as the program holds it: (payload, expiry).
LocalTier(s) ==
  [k \in DOMAIN local[s] |-> [payload |-> local[s][k].payload, expiry |-> local[s][k].expiry]]

\* The remote tier as Redis holds it: bytes and expiry.
RemoteTier == [k \in DOMAIN remote |-> [bytes |-> remote[k].bytes, expiry |-> remote[k].expiry]]

CallEnded(s) == pc[s] = "idle" /\ call[s].outcome \in {"returned", "raised"}
FromCache(c) == c.origin \in {"remote", "local"}

\* C1 (as the spec states it): a READ that a session was served from cache
\* before, issued again on that session after a WRITE and the completed run
\* of the invalidation the WRITE scheduled, within the TTL and with Redis
\* answering, is served by the store.
C1_InvalidatedReadHitsStore ==
  \A s \in Sessions :
    LET c == call[s]
    IN  (CallEnded(s) /\ c.outcome = "returned" /\ c.sawInval /\ "rget" \notin c.failed)
          => (c.origin = "store" /\ last_from_cache[s] = "False")

\* C2: a READ with no entry in either tier executes the store once and is
\* DB-served; the same READ issued again with nothing changed in between
\* (no write, no invalidation, no other store of the key, no expiry) and
\* Redis answering is served from Redis without the store, and returns the
\* payload the first call returned and kept (the empty list included).
C2_ReadThroughTwice ==
  \A s \in Sessions :
    LET c == call[s]
    IN  /\ (CallEnded(s) /\ c.outcome = "returned" /\ c.cold)
             => /\ c.storeExecs = 1 /\ c.origin = "store" /\ last_from_cache[s] = "False"
                /\ c.key \in DOMAIN local[s] /\ local[s][c.key].payload = c.value.data
        /\ (c.rep /\ "rget" \notin c.failed)
             => /\ CallEnded(s) /\ c.outcome = "returned"
                /\ c.storeExecs = 0 /\ c.origin = "remote" /\ last_from_cache[s] = "True"
                /\ c.value = Payload(local[s][c.key].payload)

C2_Witness ==
  \E s \in Sessions :
    /\ call[s].rep /\ call[s].origin = "remote" /\ call[s].value = Payload(<<>>)

\* C3 (as the spec states it): a call served from cache is served an entry
\* that a call with the same statement and the same parameter values stored.
C3_HitIsOfTheSameQuery ==
  \A s \in Sessions :
    LET c == call[s]
    IN  (c.outcome = "returned" /\ FromCache(c))
          => (c.by[1] = c.stmt /\ SameMapping(c.by[2], c.params))

\* C4 (as the spec states it): two calls with the same statement, the same
\* prefix and params dicts holding the same name-to-value pairs get the
\* same key, whatever order the dicts were built in.
C4_KeyIgnoresParamOrder ==
  \A s1 \in Sessions, s2 \in Sessions :
    (/\ call[s1].key # NoKey /\ call[s2].key # NoKey
     /\ cache_prefix(s1) = cache_prefix(s2)
     /\ call[s1].stmt = call[s2].stmt
     /\ SameMapping(call[s1].params, call[s2].params))
      => call[s1].key = call[s2].key

\* C5: a READ all of whose Redis calls raised, and whose store execution (if
\* any) succeeded, returns a payload and raises nothing; it is served by the
\* store or by a local entry that has not expired.
C5_RemoteDownReadsSucceed ==
  \A s \in Sessions :
    LET c == call[s]
    IN  (/\ CallEnded(s) /\ c.key # NoKey /\ c.storeErr = "none"
         /\ c.ops \cap {"rget", "rset"} \subseteq c.failed)
          => /\ c.outcome = "returned" /\ c.error = "none" /\ c.value.kind = "payload"
             /\ c.origin \in {"store", "local"}
             /\ (c.origin = "local" => ~c.sawExpired)

C5_Witness ==
  \E s \in Sessions :
    /\ CallEnded(s) /\ call[s].failed = {"rget"} /\ call[s].origin = "local"

\* C6: a READ that finds, after a Redis miss, a local entry with
\* expiry <= now is not served that entry: the entry is evicted, the store
\* executes, the call ends DB-served, and the local tier then holds the
\* returned payload under the key with expiry now + ttl.
C6_ExpiredEntryIsAbsent ==
  /\ [](\A s \in Sessions :
          LET c == call[s]
          IN  c.sawExpired
                => /\ c.origin # "local" /\ {"rget", "lread", "levict"} \subseteq c.ops
                   /\ (CallEnded(s) /\ c.outcome = "returned")
                        => /\ c.origin = "store" /\ c.storeExecs = 1
                           /\ last_from_cache[s] = "False"
                           /\ c.key \in DOMAIN local[s]
                           /\ local[s][c.key].payload = c.value.data)
  /\ [][\A s \in Sessions :
          (pc[s] = "set" /\ pc'[s] = "idle" /\ call[s].sawExpired /\ call'[s].outcome = "returned")
            => local'[s][call[s].key].expiry = now + Ttl]_vars

C6_Witness ==
  \E s \in Sessions :
    /\ CallEnded(s) /\ call[s].sawExpired /\ call[s].outcome = "returned" /\ call[s].origin = "store"

\* C7: when the store raises, on a miss or on a bypass, execute raises that
\* error after one execution, and the step writes nothing into Redis or
\* the local tier.
C7_StoreFailurePropagates ==
  /\ [](\A s \in Sessions :
          LET c == call[s]
          IN  c.storeErr # "none"
                => /\ CallEnded(s) /\ c.outcome = "raised" /\ c.error = c.storeErr
                   /\ c.storeExecs = 1 /\ c.ops \cap {"rset", "lwrite"} = {})
  /\ [][\A s \in Sessions :
          (call'[s] # call[s] /\ call'[s].storeErr # "none")
            => (RemoteTier' = RemoteTier /\ LocalTier(s)' = LocalTier(s))]_vars

C7_Witness ==
  \E s \in Sessions :
    /\ call[s].storeErr # "none" /\ call[s].key # NoKey /\ call[s].outcome = "raised"

\* Not a Select object and the text does not start with select, as the spec
\* words it, and with the whitespace around the text stripped first.
NotReadAsWorded(statement) ==
  statement.type # "Select" /\ ~startswith(lower(str(statement)), "select")
NotReadStripped(statement) ==
  statement.type # "Select" /\ ~startswith(lower(strip(str(statement))), "select")

\* The step in which session s makes a whole call of a statement that
\* satisfies NotRead... : no cache operation, both tiers as they were, and
\* the store's own result returned.
BypassStep(s, statement) ==
  /\ call'[s].ops = {} /\ call'[s].key = NoKey
  /\ RemoteTier' = RemoteTier /\ LocalTier(s)' = LocalTier(s)
  /\ call'[s].outcome = "returned"
       => call'[s].value = Native(StoreRows(statement, call'[s].params, db))

\* C8 (as the spec states it): a call of a statement that is not a Select
\* object and whose text does not start with select bypasses the cache.
C8_BypassAsWorded ==
  [][\A s \in Sessions :
       (pc[s] = "idle" /\ pc'[s] # pc[s] /\ NotReadAsWorded(call'[s].stmt))
         => BypassStep(s, call'[s].stmt)]_vars

\* C8 (amended): a call of a statement that is not a Select object and whose
\* text, with leading and trailing whitespace stripped, does not start with
\* select (in any case) runs on the store, returns the store's result as it
\* is, and makes no cache operation.
C8_Bypass ==
  /\ [](\A s \in Sessions :
          (call[s].stmt # NoStmt /\ NotReadStripped(call[s].stmt))
            => (call[s].ops = {} /\ call[s].key = NoKey /\ CallEnded(s)
                /\ (call[s].outcome = "returned" => call[s].value.kind = "native")))
  /\ [][\A s \in Sessions :
          (pc[s] = "idle" /\ ncalls' # ncalls /\ call'[s] # call[s]
           /\ NotReadStripped(call'[s].stmt))
            => BypassStep(s, call'[s].stmt)]_vars

C8_Witness ==
  \E s \in Sessions :
    /\ call[s].stmt = InsBob /\ call[s].outcome = "returned" /\ remote # <<>>

\* C9 (as the spec states it): after a call returned, the flag says which
\* side served it: cache for Redis or the local tier, store otherwise.
C9_FlagDescribesLastCall ==
  \A s \in Sessions :
    (CallEnded(s) /\ call[s].outcome = "returned")
      => last_from_cache[s] = (IF FromCache(call[s]) THEN "True" ELSE "False")

\* C10: a write statement that the store executed returns to its caller
\* whatever becomes of the invalidation: not scheduled, still pending, done
\* or failed in its keys or delete call.
C10_WriteSurvivesInvalidation ==
  \A s \in Sessions :
    LET c == call[s]
    IN  (c.stmt # NoStmt /\ ~is_select(c.stmt) /\ is_write(c.stmt) /\ c.storeErr = "none")
          => /\ CallEnded(s) /\ c.outcome = "returned" /\ c.error = "none"
             /\ c.task \in {"unscheduled", "pending", "done", "failed"}

C10_Witness ==
  \E s \in Sessions :
    /\ is_write(call[s].stmt) /\ call[s].outcome = "returned" /\ call[s].task = "failed"

\* The payload the specification gives for a result, by its shape: a flat
\* record per mapped object; the scalars of a single column; a flat record
\* of the named fields per row of several columns.
PayloadByShape(result) ==
  CASE result.shape = "orm" ->
         [i \in 1..Len(result.rows) |-> result.rows[i][result.cols[1]].attrs]
    [] result.shape = "columns" /\ Len(result.cols) = 1 ->
         [i \in 1..Len(result.rows) |-> Scalar(result.rows[i][result.cols[1]])]
    [] result.shape = "columns" /\ Len(result.cols) > 1 -> result.rows
    [] OTHER -> <<>>

\* C11 (as the spec states it): the payload a miss materializes, when no
\* introspection call fails, is the list of flat records of the mapped
\* objects, or the list of the scalars, or, for rows of several named
\* columns, the list of flat records holding every selected column.
C11_PayloadFollowsShape ==
  [][\A s \in Sessions :
       (pc[s] = "db" /\ pc'[s] = "set" /\ call'[s].fails = {})
         => call'[s].value = Payload(PayloadByShape(StoreRows(call[s].stmt, call[s].params, db)))]_vars

\* C12 (as the spec states it): a miss whose materialization met a failing
\* introspection call raises nothing, and what the call hands to its caller
\* is what it would have handed over without the failure.
C12_FailureLeavesCallersResult ==
  /\ [](\A s \in Sessions : call[s].fails # {} => call[s].outcome # "raised")
  /\ [][\A s \in Sessions :
          (pc[s] = "db" /\ pc'[s] = "set" /\ call'[s].fails # {})
            => call'[s].value = Payload(materialize(StoreRows(call[s].stmt, call[s].params, db)))]_vars

\* C13 (as the spec states it): no call of execute or of clear_cache ends
\* with the error of a Redis get, set, keys or delete call.
C13_RemoteErrorsAbsorbed ==
  \A s \in Sessions :
    ~(call[s].failed # {} /\ call[s].outcome = "raised" /\ call[s].error = "RedisError")

\* C14 (as the spec states it): a call that missed never writes into Redis
\* a payload that the store computed before a write which has executed
\* since; the payloads that calls write under one key are those of one
\* state of the store.
C14_NoPreWriteStore ==
  [][\A s \in Sessions :
       (pc[s] = "set" /\ pc'[s] = "idle" /\ "rset" \notin call'[s].failed)
         => ~call[s].pre]_vars

\* A tier holds a payload computed before the write that can still be
\* served: its expiry is ahead.
PreServable ==
  \/ \E k \in DOMAIN remote : remote[k].pre /\ remote[k].expiry > now
  \/ \E s \in Sessions : \E k \in DOMAIN local[s] : local[s][k].pre /\ local[s][k].expiry > now

\* A read the store served before the write has yet to set its payload.
PreInFlight == \E s \in Sessions : pc[s] = "set" /\ call[s].pre

\* Every payload computed before the write expires within the time the
\* clock is followed for.
PreWithinHorizon ==
  /\ \A k \in DOMAIN remote : remote[k].pre => remote[k].expiry <= MaxTime
  /\ \A s \in Sessions : \A k \in DOMAIN local[s] : local[s][k].pre => local[s][k].expiry <= MaxTime

\* C15: after a write, with no further write: a payload computed before
\* the write enters a tier only by the one set of a read that was in flight,
\* with expiry now + ttl; a call is handed such a payload only from an entry
\* whose expiry is ahead; and once no such read is in flight, the time
\* comes when no tier can serve a pre-write payload, so that every READ
\* from then on is served a payload computed after the write.
C15_StalenessEndsWithTtl ==
  /\ [](\A s \in Sessions :
          (CallEnded(s) /\ call[s].outcome = "returned" /\ call[s].pre /\ FromCache(call[s]))
            => ~call[s].sawExpired)
  /\ [][\A k \in DOMAIN remote' :
          (remote'[k].pre /\ (k \notin DOMAIN remote \/ remote'[k].expiry # remote[k].expiry))
            => /\ remote'[k].expiry = now + Ttl
               /\ \E s \in Sessions : pc[s] = "set" /\ pc'[s] = "idle" /\ call[s].pre /\ call[s].key = k]_vars
  /\ [][\A s \in Sessions : \A k \in DOMAIN local'[s] :
          (local'[s][k].pre /\ (k \notin DOMAIN local[s] \/ local'[s][k].expiry # local[s][k].expiry))
            => /\ local'[s][k].expiry = now + Ttl
               /\ pc[s] = "set" /\ pc'[s] = "idle" /\ call[s].pre /\ call[s].key = k]_vars
  /\ [][\A s \in Sessions :
          (~PreServable /\ ~PreInFlight /\ pc[s] = "idle" /\ call'[s] # call[s])
            => ~call'[s].pre]_vars
  /\ ((PreServable /\ ~PreInFlight /\ PreWithinHorizon) ~> ~PreServable)

\* The stale entry has expired and the session is served, by the store, the
\* payload of the table as the write left it.
C15_Witness ==
  \E s \in Callers :
    /\ CallEnded(s) /\ call[s].stmt = SelBob /\ call[s].sawExpired /\ call[s].origin = "store"
    /\ call[s].fails = {} /\ ~call[s].pre
    /\ call[s].value = Payload(materialize(StoreRows(SelBob, <<>>, db)))
    /\ call[s].value # Payload(StalePayload)

\* The step in which session s looks a READ up.
LookupStep(s) == pc[s] = "idle" /\ call'[s] # call[s] /\ call'[s].key # NoKey

\* C16: a lookup asks Redis first; a Redis hit is returned without a read
\* of the local tier, whatever the local tier holds for the key; the local
\* tier is read only after a Redis miss or failure; a local entry is
\* returned only with expiry > now; an entry found with expiry <= now is
\* removed by that lookup; no entry with expiry > now is removed or changed
\* by a lookup.
C16_LookupOrder ==
  [][\A s \in Sessions :
       LookupStep(s) =>
         LET c == call'[s]
             k == c.key
             rhit == RedisGet(k).found /\ "rget" \notin c.failed
             has == k \in DOMAIN local[s]
         IN  /\ "rget" \in c.ops
             /\ rhit => /\ c.outcome = "returned" /\ c.origin = "remote" /\ "lread" \notin c.ops
                        /\ c.value = Payload(pickle_loads(remote[k].bytes))
                        /\ LocalTier(s)' = LocalTier(s)
             /\ ~rhit => "lread" \in c.ops
             /\ c.origin = "local"
                  => /\ ~rhit /\ has /\ local[s][k].expiry > now
                     /\ c.value = Payload(local[s][k].payload)
             /\ (~rhit /\ has /\ local[s][k].expiry <= now)
                  => (k \notin DOMAIN local'[s] /\ "levict" \in c.ops /\ c.origin # "local")
             /\ \A k2 \in DOMAIN local[s] :
                  local[s][k2].expiry > now
                    => (k2 \in DOMAIN LocalTier(s)' /\ LocalTier(s)'[k2] = LocalTier(s)[k2])]_vars

\* A Redis hit returned while the local tier holds another payload for the
\* key, not expired.
C16_Witness ==
  \E s \in Sessions :
    LET c == call[s]
    IN  /\ CallEnded(s) /\ c.outcome = "returned" /\ c.origin = "remote"
        /\ c.key \in DOMAIN local[s] /\ local[s][c.key].expiry > now
        /\ Payload(local[s][c.key].payload) # c.value

\* C17: the set step of a miss leaves (payload, now + ttl) under the key in
\* the session's local tier and returns the payload, whether the Redis set
\* succeeded or raised; a READ that finds its own entry there, not expired,
\* while the Redis get raises, is served that payload from the local tier
\* and the store does not execute.
C17_LocalWriteUnconditional ==
  /\ [][\A s \in Sessions :
          (pc[s] = "set" /\ pc'[s] # "set")
            => /\ call'[s].outcome = "returned" /\ call'[s].value = call[s].value
               /\ call[s].key \in DOMAIN local'[s]
               /\ LocalTier(s)'[call[s].key] = [payload |-> call[s].value.data, expiry |-> now + Ttl]]_vars
  /\ [][\A s \in Sessions :
          LET c == call'[s]
              k == c.key
          IN  (/\ LookupStep(s) /\ "rget" \in c.failed
               /\ k \in DOMAIN local[s] /\ local[s][k].expiry > now)
                => /\ c.outcome = "returned" /\ c.origin = "local" /\ c.storeExecs = 0
                   /\ c.value = Payload(local[s][k].payload)
                   /\ pc'[s] = "idle" /\ last_from_cache'[s] = "True"]_vars

\* The Redis set of the miss had raised (Redis holds nothing for the key),
\* and the same READ, its Redis get raising, is served from the local tier.
C17_Witness ==
  \E s \in Sessions :
    LET c == call[s]
    IN  /\ CallEnded(s) /\ c.outcome = "returned" /\ c.origin = "local" /\ c.failed = {"rget"}
        /\ c.by = <<c.stmt, c.params>> /\ c.storeExecs = 0
        /\ c.key \notin DOMAIN remote /\ now = 0 /\ db = InitDb /\ tasks = <<>>


\* C18: when a clear_cache call returns, Redis holds no key under the
\* session's prefix; when a task of the listener ends without a Redis
\* error, Redis holds no key under the listener's prefix.
C18_NamespaceEmptied ==
  [][/\ \A s \in Sessions :
          (/\ call'[s].op = "clear_cache" /\ call'[s].outcome = "returned"
           /\ call'[s] # call[s])
            => RedisKeys(cache_prefix(s))' = {}
     /\ \A i \in 1..Len(tasks) :
          (/\ tasks' = Remove(tasks, i)
           /\ tasks[i].owner \in Sessions
           /\ call[tasks[i].owner].task = "pending"
           /\ call'[tasks[i].owner].task = "done")
            => RedisKeys(tasks[i].prefix)' = {}]_vars


\* The text of the statement starts with insert, update or delete, as the
\* spec words it, and with the whitespace around the text stripped first.
WriteAsWorded(statement) ==
  startswithAny(lower(str(statement)), {"insert", "update", "delete"})
WriteStripped(statement) ==
  startswithAny(lower(strip(str(statement))), {"insert", "update", "delete"})

\* The step in which session s makes a whole call that bypasses the cache,
\* and the step in which the store executes the SELECT of a miss of s.
BypassCall(s) ==
  /\ pc[s] = "idle" /\ pc'[s] = "idle" /\ ncalls' = ncalls + 1
  /\ call'[s].op = "execute" /\ call'[s].key = NoKey /\ call'[s].storeExecs = 1
MissStoreStep(s) == pc[s] = "db" /\ pc'[s] # "db"

\* C19 (as the spec states it): a task is scheduled only in the call of a
\* statement whose text starts with insert, update or delete.
C19_TriggerAsWorded ==
  [][Len(tasks') > Len(tasks)
       => \E s \in Sessions : BypassCall(s) /\ WriteAsWorded(call'[s].stmt)]_vars

\* C19 (amended): a task is scheduled only in the call of a statement whose
\* text, with leading and trailing whitespace stripped, starts with insert,
\* update or delete (in any case) and which the store executed without
\* error, and that call schedules exactly one task; the store's execution
\* of a READ, the call of any other statement and a call the store failed
\* schedule none; a task that failed leaves the loop and is not scheduled
\* again.
C19_Trigger ==
  /\ [][Len(tasks') > Len(tasks)
          => \E s \in Sessions :
               /\ BypassCall(s) /\ WriteStripped(call'[s].stmt)
               /\ call'[s].storeErr = "none" /\ call'[s].outcome = "returned"
               /\ tasks' = Append(Detach(tasks, s), NewTask(s, ListenerPrefix))]_vars
  /\ [][\A s \in Sessions :
          (\/ MissStoreStep(s)
           \/ BypassCall(s) /\ (~WriteStripped(call'[s].stmt) \/ call'[s].storeErr # "none"))
            => Len(tasks') = Len(tasks)]_vars
  /\ [][\A i \in 1..Len(tasks) :
          (/\ tasks[i].owner \in Sessions
           /\ call[tasks[i].owner].task = "pending"
           /\ call'[tasks[i].owner].task = "failed")
            => tasks' = Remove(tasks, i)]_vars

\* The textual INSERT with leading whitespace executed, its one task failed
\* at Redis and nothing is scheduled.
C19_Witness ==
  \E s \in Sessions :
    /\ call[s].stmt = TxtInsBob /\ call[s].outcome = "returned"
    /\ call[s].task = "failed" /\ tasks = <<>> /\ Bob \in db


\* C20: the delete of an invalidation run for a prefix (a task of the
\* listener, or clear_cache of a session) leaves every Redis key of another
\* prefix as it was, and leaves the local tier of every session as it was.
C20_InvalidationFrame ==
  [][\A pre \in {ListenerPrefix} \cup {cache_prefix(s) : s \in Sessions} :
       (\/ \E i \in 1..Len(tasks) :
             tasks[i].pc = "delete" /\ tasks[i].prefix = pre /\ tasks' = Remove(tasks, i)
        \/ \E s \in Sessions :
             pc[s] = "del" /\ pc'[s] = "idle" /\ cache_prefix(s) = pre)
         => /\ \A k \in DOMAIN remote :
                 k.prefix # pre => (k \in DOMAIN remote' /\ RemoteTier'[k] = RemoteTier[k])
            /\ \A s \in Sessions : LocalTier(s)' = LocalTier(s)]_vars

=============================================================================
